---- MODULE Spec2Model ----
\* Model of src/src/shopify/theme_client.go: the theme client's session state
\* (themeID), its operations against the HTTP adapter, the response decoder
\* (unmarshalResponse) and the error aggregator (toMessages, toSentence).
\*
\* Strings are sequences of text fragments: "" is << >>, Go's + is \o.  Asset
\* keys are sequences of single characters so that Go's byte-wise < on strings
\* and the ".liquid" suffix are computed, not assumed.
EXTENDS Integers, Sequences, FiniteSets, TLC

VARIABLES
    themeID,    \* Client.themeID
    filter,     \* Client.filter, as the set of keys file.Filter.Match accepts
    last,       \* the single-request operation that has just returned: call, requests, response, result
    ua,         \* the UpdateAsset / CreateAsset call in flight or just returned; raced is <<n>>
                \* when another caller's CreateNewTheme succeeded after its n-th logged request
    created,    \* <<ID>> of the theme of the last CreateNewTheme that succeeded, << >> if none
    items,      \* argument of the toSentence evaluation (SentenceSpec)
    sentence,   \* its result
    fieldErrors,    \* a field-error map handed to the aggregator (MessagesSpec)
    renderings      \* the renderings of that map so far: toMessages' list and its sentence

vars == <<themeID, filter, last, ua, created, items, sentence, fieldErrors, renderings>>

\* ---------------------------------------------------------------- bounds
MaxKeys == 3        \* asset keys in one listing response
MaxItems == 4       \* items handed to toSentence in SentenceSpec
MaxLog == 3         \* requests of one UpdateAsset call kept in its log
CountCap == 3       \* the PUT / DELETE counters of one UpdateAsset call saturate here
MaxMsgs == 2        \* messages of one attribute in the maps of MessagesSpec

\* ---------------------------------------------------------------- strings
Min(a, b) == IF a < b THEN a ELSE b

\* byte values of the characters asset keys are made of here
Ord(ch) ==
    CASE ch = "-" -> 45
      [] ch = "." -> 46
      [] ch = "a" -> 97
      [] ch = "b" -> 98
      [] ch = "d" -> 100
      [] ch = "i" -> 105
      [] ch = "l" -> 108
      [] ch = "q" -> 113
      [] ch = "u" -> 117

\* Go's s < t on strings: byte-wise lexicographic order
RECURSIVE StrLess(_, _)
StrLess(s, t) ==
    IF t = << >> THEN FALSE
    ELSE IF s = << >> THEN TRUE
    ELSE IF Ord(Head(s)) # Ord(Head(t)) THEN Ord(Head(s)) < Ord(Head(t))
    ELSE StrLess(Tail(s), Tail(t))

\* strings.Contains(s, sub)
Contains(s, sub) ==
    \E i \in 1..(Len(s) + 1) :
        /\ i + Len(sub) - 1 <= Len(s)
        /\ SubSeq(s, i, i + Len(sub) - 1) = sub

\* strings.Join(a, sep)
RECURSIVE Join(_, _)
Join(a, sep) ==
    IF a = << >> THEN << >>
    ELSE IF Len(a) = 1 THEN a[1]
    ELSE a[1] \o sep \o Join(Tail(a), sep)

DigitChar(d) ==
    CASE d = 0 -> "0" [] d = 1 -> "1" [] d = 2 -> "2" [] d = 3 -> "3" [] d = 4 -> "4"
      [] d = 5 -> "5" [] d = 6 -> "6" [] d = 7 -> "7" [] d = 8 -> "8" [] d = 9 -> "9"

RECURSIVE Digits(_)
Digits(n) ==
    IF n < 10 THEN <<DigitChar(n)>>
    ELSE Digits(n \div 10) \o <<DigitChar(n % 10)>>

\* fmt.Sprintf("%d", id) for an int64
FormatInt(n) == IF n < 0 THEN <<"-">> \o Digits(0 - n) ELSE Digits(n)

Liquid == <<".", "l", "i", "q", "u", "i", "d">>
Phrase == <<"Cannot overwrite ", "generated asset">>

\* ---------------------------------------------------------------- errors
Nil == [kind |-> "nil", text |-> << >>]
Sentinel(name) == [kind |-> name, text |-> << >>]
ErrCriticalFile == Sentinel("ErrCriticalFile")
ErrNotPartOfTheme == Sentinel("ErrNotPartOfTheme")
ErrMalformedResponse == Sentinel("ErrMalformedResponse")
ErrInfoWithoutThemeID == Sentinel("ErrInfoWithoutThemeID")
ErrPublishWithoutThemeID == Sentinel("ErrPublishWithoutThemeID")
ErrThemeNotFound == Sentinel("ErrThemeNotFound")
ErrShopDomainNotFound == Sentinel("ErrShopDomainNotFound")
ErrMissingAssetName == Sentinel("ErrMissingAssetName")
ErrThemeNameRequired == Sentinel("ErrThemeNameRequired")
\* errors.New(s)
NewError(s) == [kind |-> "msg", text |-> s]
\* the error the HTTP adapter returns instead of a response
TransportErr == Sentinel("transport")
\* the error body.Close() returns
CloseErr == Sentinel("close")
\* a run-time panic unwinding the call (index out of range)
Panic == Sentinel("panic")

\* ---------------------------------------------------------------- error aggregator
toSentenceNoOxford(a) ==
    CASE Len(a) = 0 -> << >>
      [] Len(a) = 1 -> a[1]
      [] OTHER -> Join(SubSeq(a, 1, Len(a) - 1), <<", ">>) \o <<" and ">> \o a[Len(a)]

toSentence(a) ==
    CASE Len(a) = 0 -> << >>
      [] Len(a) = 1 -> a[1]
      [] Len(a) = 2 -> a[1] \o <<" and ">> \o a[2]
      [] OTHER -> Join(SubSeq(a, 1, Len(a) - 1), <<", ">>) \o <<", and ">> \o a[Len(a)]

RECURSIVE attrMessagesReversed(_, _)
attrMessagesReversed(attr, errs) ==
    IF errs = << >> THEN << >>
    ELSE attrMessagesReversed(attr, Tail(errs)) \o <<(<<attr, " ">> \o Head(errs))>>

\* the inner loop of toMessages for one attribute
RECURSIVE attrMessages(_, _)
attrMessages(attr, errs) ==
    IF errs = << >> THEN << >>
    ELSE <<(<<attr, " ">> \o Head(errs))>> \o attrMessages(attr, Tail(errs))

\* toMessages(a) when the range over the map visits the attributes in `order`
RECURSIVE toMessages(_, _)
toMessages(a, order) ==
    IF order = << >> THEN << >>
    ELSE attrMessages(Head(order), a[Head(order)]) \o toMessages(a, Tail(order))

\* the orders in which Go may range over a map with these keys
Orders(S) == {o \in [1..Cardinality(S) -> S] : \A i, j \in DOMAIN o : i # j => o[i] # o[j]}

\* ---------------------------------------------------------------- wire shapes
\* asset keys of the model: a source, its generated shadow, the shadow's own
\* shadow, a key that sorts between "a" and "a.liquid" ('-' < '.'), and another
KeyA == <<"a">>
KeyB == <<"b">>
KeyBetween == <<"a", "-">>
Keys == {KeyA, KeyA \o Liquid, KeyA \o Liquid \o Liquid, KeyBetween, KeyB}
\* the key lists of a listing response, in any order; keys are unique within a theme
KeySeqs ==
    UNION {{ks \in [1..n -> Keys] : \A i, j \in 1..n : i # j => ks[i] # ks[j]} : n \in 0..MaxKeys}

\* field-error messages: one that contains the overwrite-conflict phrase, one that does not
MsgConflict == <<"a.liquid: ">> \o Phrase \o <<".">>
MsgOther == <<"is invalid">>

\* map[string][]string values of the "errors" member
NoErrors == [x \in {} |-> << >>]
ErrMaps ==
    { NoErrors,
      [x \in {"asset"} |-> << >>],
      [x \in {"asset"} |-> <<MsgConflict>>],
      [x \in {"asset"} |-> <<MsgConflict, MsgOther>>],
      [x \in {"asset"} |-> <<MsgOther>>],
      [x \in {"asset"} |-> <<MsgOther, MsgConflict>>],
      [x \in {"base"} |-> <<MsgOther>>],
      [x \in {"base"} |-> <<MsgConflict>>],
      [x \in {"asset", "base"} |-> IF x = "asset" THEN <<MsgConflict>> ELSE <<MsgOther>>],
      [x \in {"asset", "base"} |-> IF x = "asset" THEN <<MsgOther>> ELSE <<MsgOther, MsgConflict>>] }

\* the "errors" member of a JSON object: absent, a string, a map of lists, or a number
ErrField(kind, s, m) == [kind |-> kind, s |-> s, m |-> m]
ErrAbsent == ErrField("absent", << >>, NoErrors)
FlatMsg == <<"Invalid API key">>
ErrFields ==
    {ErrAbsent, ErrField("string", << >>, NoErrors), ErrField("string", FlatMsg, NoErrors),
     ErrField("number", << >>, NoErrors)}
    \cup {ErrField("map", << >>, m) : m \in ErrMaps}

\* the member the target shape reads ("theme", "themes", "asset", "assets", or the
\* shop's own members): absent, of the wrong JSON type, or well typed
Payload(kind, id, keys) == [kind |-> kind, id |-> id, keys |-> keys]
NoPayload == Payload("absent", 0, << >>)
BadPayload == Payload("bad", 0, << >>)
OkPayload == Payload("ok", 0, << >>)
ThemeIDs == {0, 12}

\* a response body: a stream that cannot be read, one whose Close fails, bytes
\* that are not JSON, a JSON array, the JSON null, or a JSON object
Body(syntax, errors, payload) == [syntax |-> syntax, errors |-> errors, payload |-> payload]
RawBodies == {Body(x, ErrAbsent, NoPayload) : x \in {"unreadable", "closefails", "invalid", "array", "null"}}
PlainBodies == RawBodies \cup {Body("object", e, p) : e \in ErrFields, p \in {OkPayload, BadPayload}}
ThemeBodies ==
    RawBodies \cup {Body("object", e, p) : e \in ErrFields,
                        p \in {NoPayload, BadPayload} \cup {Payload("ok", i, << >>) : i \in ThemeIDs}}
AssetsBodies ==
    PlainBodies \cup {Body("object", ErrAbsent, Payload("ok", 0, ks)) : ks \in KeySeqs}

\* what the adapter hands back: an error, or a response with a status code and a body
Resp(status, body) == [err |-> Nil, status |-> status, body |-> body]
NoBody == Body("none", ErrAbsent, NoPayload)
Failed == [err |-> TransportErr, status |-> 0, body |-> NoBody]
Statuses == {200, 403, 404, 406, 422}
Responses(bodies) == {Failed} \cup {Resp(st, b) : st \in Statuses, b \in bodies}
PlainResponses == Responses(PlainBodies)
ThemeResponses == Responses(ThemeBodies)
AssetsResponses == Responses(AssetsBodies)
\* the responses to UpdateAsset's PUT: 403 and 406 mean nothing to it
PutResponses == {r \in PlainResponses : r.status \notin {403, 406}}

\* ---------------------------------------------------------------- response decoder
\* json.Unmarshal(reqBody, data) for the target shapes; "theme" and "asset" are
\* the shapes with an Errors map (themeResponse, assetResponse).  Decoding null
\* into a struct succeeds and sets nothing.
HasErrorsMember(target) == target \in {"theme", "asset"}

mainErr(body, target) ==
    \/ body.syntax \notin {"object", "null"}
    \/ body.payload.kind = "bad"
    \/ HasErrorsMember(target) /\ body.errors.kind \in {"string", "number"}

\* json.Unmarshal(reqBody, &re) for reqErr
basicErr(body) ==
    \/ body.syntax \notin {"object", "null"}
    \/ body.errors.kind \in {"map", "number"}

\* re.Errors after the decode
reErrors(body) ==
    IF body.syntax = "object" /\ body.errors.kind = "string" THEN body.errors.s ELSE << >>

\* the members of data after the decode: json.Unmarshal goes on past a member
\* of the wrong type, so the well-typed members are set even when it fails
decodedID(body) ==
    IF body.syntax = "object" /\ body.payload.kind = "ok" THEN body.payload.id ELSE 0
decodedKeys(body) ==
    IF body.syntax = "object" /\ body.payload.kind = "ok" THEN body.payload.keys ELSE << >>
decodedErrors(body, target) ==
    IF body.syntax = "object" /\ HasErrorsMember(target) /\ body.errors.kind = "map"
    THEN body.errors.m ELSE NoErrors

unmarshalResponseEitherFails(body, target) ==
    IF body.syntax = "unreadable" THEN ErrMalformedResponse
    ELSE IF body.syntax = "closefails" THEN CloseErr
    ELSE IF mainErr(body, target) \/ basicErr(body) THEN ErrMalformedResponse
    ELSE IF Len(reErrors(body)) > 0 THEN NewError(reErrors(body))
    ELSE Nil

unmarshalResponse(body, target) ==
    IF body.syntax = "unreadable" THEN ErrMalformedResponse
    ELSE IF body.syntax = "closefails" THEN CloseErr
    ELSE IF mainErr(body, target) /\ basicErr(body) THEN ErrMalformedResponse
    ELSE IF Len(reErrors(body)) > 0 THEN NewError(reErrors(body))
    ELSE Nil

\* ---------------------------------------------------------------- requests
\* a request as the adapter receives it: method, path with its query, payload
Request(method, url, data) == [method |-> method, url |-> url, data |-> data]
Url(path, query) == [path |-> path, query |-> query]
NoQuery == << >>

\* fmt.Sprintf("/admin/themes/%s.json", c.themeID)
themePath(id) == Url(<<"/admin/themes/">> \o id \o <<".json">>, NoQuery)

assetPathLiveTheme(id, query) == Url(<<"/admin/assets.json">>, query)

\* Client.assetPath; the query is kept as its (name, value) pair, url.Values.Encode left out
assetPath(id, query) ==
    Url(IF id # << >> THEN <<"/admin/themes/">> \o id \o <<"/assets.json">>
        ELSE <<"/admin/assets.json">>,
        query)

\* file.Filter.Match of the client's filter
Match(flt, key) == key \in flt

\* ---------------------------------------------------------------- results
Val(id, keys) == [id |-> id, keys |-> keys]
NoVal == Val(0, << >>)
\* what an operation returned, and what unmarshalResponse returned inside it
NotDecoded == [called |-> FALSE, err |-> Nil]
Decoded(e) == [called |-> TRUE, err |-> e]
Out(err, val, dec) == [err |-> err, val |-> val, dec |-> dec]

\* ---------------------------------------------------------------- single-request operations
GetShopOut(resp) ==
    IF resp.err # Nil THEN Out(resp.err, NoVal, NotDecoded)
    ELSE IF resp.status = 404 THEN Out(ErrShopDomainNotFound, NoVal, NotDecoded)
    ELSE LET d == unmarshalResponse(resp.body, "shop") IN
         Out(d, NoVal, Decoded(d))

ThemesOut(resp) ==
    IF resp.err # Nil THEN Out(resp.err, NoVal, NotDecoded)
    ELSE LET d == unmarshalResponse(resp.body, "themes") IN
         Out(d, NoVal, Decoded(d))

\* CreateNewTheme after the request; `order` is the map iteration order of toMessages
CreateNewThemeOut(resp, order) ==
    IF resp.err # Nil THEN Out(resp.err, NoVal, NotDecoded)
    ELSE LET d == unmarshalResponse(resp.body, "theme")
             errs == decodedErrors(resp.body, "theme") IN
         IF d # Nil THEN Out(d, NoVal, Decoded(d))
         ELSE IF Cardinality(DOMAIN errs) > 0
              THEN Out(NewError(toSentence(toMessages(errs, order))), NoVal, Decoded(d))
         ELSE Out(Nil, Val(decodedID(resp.body), << >>), Decoded(d))

CreatedThemeIDLastDigit(id) == <<DigitChar(id % 10)>>

CreatedThemeIDZeroEmpty(id) == IF id = 0 THEN << >> ELSE FormatInt(id)

\* the assignment to c.themeID at the end of CreateNewTheme
CreatedThemeID(id) == FormatInt(id)

GetInfoOut(resp) ==
    IF resp.err # Nil THEN Out(resp.err, NoVal, NotDecoded)
    ELSE IF resp.status = 404 THEN Out(ErrThemeNotFound, NoVal, NotDecoded)
    ELSE LET d == unmarshalResponse(resp.body, "theme") IN
         IF d # Nil THEN Out(d, NoVal, Decoded(d))
         ELSE Out(Nil, Val(decodedID(resp.body), << >>), Decoded(d))

PublishThemeOut(resp, order) ==
    IF resp.err # Nil THEN Out(resp.err, NoVal, NotDecoded)
    ELSE IF resp.status = 404 THEN Out(ErrThemeNotFound, NoVal, NotDecoded)
    ELSE LET d == unmarshalResponse(resp.body, "theme")
             errs == decodedErrors(resp.body, "theme") IN
         IF d # Nil THEN Out(d, NoVal, Decoded(d))
         ELSE IF Cardinality(DOMAIN errs) > 0
              THEN Out(NewError(toSentence(toMessages(errs, order))), NoVal, Decoded(d))
         ELSE Out(Nil, NoVal, Decoded(d))

\* sort.Slice(r.Assets, by Key ascending): insertion of one key into a sorted list
RECURSIVE Insert(_, _)
Insert(k, sorted) ==
    IF sorted = << >> THEN <<k>>
    ELSE IF StrLess(k, Head(sorted)) THEN <<k>> \o sorted
    ELSE <<Head(sorted)>> \o Insert(k, Tail(sorted))

RECURSIVE SortKeys(_)
SortKeys(ks) == IF ks = << >> THEN << >> ELSE Insert(Head(ks), SortKeys(Tail(ks)))

KeepAssetDropsShadow(assets, index, flt) ==
    /\ ~Match(flt, assets[index])
    /\ (index = 1 \/ assets[index] # assets[index - 1] \o Liquid)

KeepAssetUnlessShadowIgnored(assets, index, flt) ==
    /\ ~Match(flt, assets[index])
    /\ \/ index = Len(assets)
       \/ assets[index + 1] # assets[index] \o Liquid
       \/ Match(flt, assets[index + 1])

\* the condition of the listing loop for the key at `index` (1-based) of the sorted list
KeepAsset(assets, index, flt) ==
    /\ ~Match(flt, assets[index])
    /\ (index = Len(assets) \/ assets[index + 1] # assets[index] \o Liquid)

\* the listing loop from `index` on
RECURSIVE FilterFrom(_, _, _)
FilterFrom(assets, index, flt) ==
    IF index > Len(assets) THEN << >>
    ELSE (IF KeepAsset(assets, index, flt) THEN <<assets[index]>> ELSE << >>)
         \o FilterFrom(assets, index + 1, flt)

filteredAssets(ks, flt) == FilterFrom(SortKeys(ks), 1, flt)

GetAllAssetsOut(resp, flt) ==
    IF resp.err # Nil THEN Out(resp.err, NoVal, NotDecoded)
    ELSE IF resp.status = 404 THEN Out(ErrThemeNotFound, NoVal, NotDecoded)
    ELSE LET d == unmarshalResponse(resp.body, "assets") IN
         IF d # Nil THEN Out(d, NoVal, Decoded(d))
         ELSE Out(Nil, Val(0, filteredAssets(decodedKeys(resp.body), flt)), Decoded(d))

GetAssetOut(resp) ==
    IF resp.err # Nil THEN Out(resp.err, NoVal, NotDecoded)
    ELSE IF resp.status = 404 THEN Out(ErrNotPartOfTheme, NoVal, NotDecoded)
    ELSE LET d == unmarshalResponse(resp.body, "asset") IN
         Out(d, NoVal, Decoded(d))

DeleteStatusErrWithout406(status) ==
    CASE status = 403 -> ErrCriticalFile
      [] status = 404 -> ErrNotPartOfTheme
      [] OTHER -> Nil

\* the status codes DeleteAsset maps before it decodes the body
DeleteStatusErr(status) ==
    CASE status = 403 -> ErrCriticalFile
      [] status = 404 -> ErrNotPartOfTheme
      [] status = 406 -> ErrMissingAssetName
      [] OTHER -> Nil

DeleteAssetSendsNamedOnly(key) == key # << >>

\* DeleteAsset sends its request whatever the key is
DeleteAssetSends(key) == TRUE

DeleteAssetOut(resp, order) ==
    IF resp.err # Nil THEN Out(resp.err, NoVal, NotDecoded)
    ELSE IF DeleteStatusErr(resp.status) # Nil
         THEN Out(DeleteStatusErr(resp.status), NoVal, NotDecoded)
    ELSE LET d == unmarshalResponse(resp.body, "asset")
             errs == decodedErrors(resp.body, "asset") IN
         IF d # Nil THEN Out(d, NoVal, Decoded(d))
         ELSE IF Cardinality(DOMAIN errs) > 0
              THEN Out(NewError(toSentence(toMessages(errs, order))), NoVal, Decoded(d))
         ELSE Out(Nil, NoVal, Decoded(d))

\* ---------------------------------------------------------------- UpdateAsset
\* one pass of UpdateAsset over the response to its PUT: it returns (retry = FALSE)
\* or goes on to delete the shadow and call itself again (retry = TRUE)
Step(retry, err, dec) == [retry |-> retry, err |-> err, dec |-> dec]

IsConflictAtAnyPosition(status, msgs) ==
    status = 422 /\ \E i \in DOMAIN msgs : Contains(msgs[i], Phrase)

IsConflict(status, msgs) == status = 422 /\ Contains(msgs[1], Phrase)

UpdateAssetStep(resp, order) ==
    IF resp.err # Nil THEN Step(FALSE, resp.err, NotDecoded)
    ELSE IF resp.status = 404 THEN Step(FALSE, ErrNotPartOfTheme, NotDecoded)
    ELSE LET d == unmarshalResponse(resp.body, "asset")
             errs == decodedErrors(resp.body, "asset") IN
         IF d # Nil THEN Step(FALSE, d, Decoded(d))
         ELSE IF Cardinality(DOMAIN errs) > 0
              THEN IF "asset" \in DOMAIN errs
                   THEN IF resp.status = 422 /\ Len(errs["asset"]) = 0
                        THEN Step(FALSE, Panic, Decoded(d))    \* r.Errors["asset"][0] out of range
                        ELSE IF IsConflict(resp.status, errs["asset"])
                        THEN Step(TRUE, Nil, Decoded(d))
                        ELSE Step(FALSE, NewError(toSentence(errs["asset"])), Decoded(d))
                   ELSE Step(FALSE, NewError(toSentence(toMessages(errs, order))), Decoded(d))
         ELSE Step(FALSE, Nil, Decoded(d))

RetryResultKeepsDeleteErr(delErr, inner) == IF delErr # Nil THEN delErr ELSE inner

\* what UpdateAsset returns after a retry: the shadow delete's error is dropped,
\* the inner UpdateAsset's result is returned
RetryResult(delErr, inner) == inner

\* ---------------------------------------------------------------- state
NoResp == [err |-> Nil, status |-> 0, body |-> NoBody]

\* record of a completed single-request operation
Call(op, arg, id, reqs, resp, out) ==
    [op |-> op, arg |-> arg, id |-> id, reqs |-> reqs, resp |-> resp,
     err |-> out.err, val |-> out.val, dec |-> out.dec]
NoCall == Call("none", << >>, << >>, << >>, NoResp, Out(Nil, NoVal, NotDecoded))

\* marks a result or an outcome that does not exist (yet)
NoOutcome == Sentinel("none")
\* marks the outcome of a PUT that made UpdateAsset retry
Retried == Sentinel("retry")

NotCreated == << >>

\* a response with status 422 whose errors.asset[0] contains the overwrite-conflict phrase
ConflictResponse(resp) ==
    /\ resp.err = Nil
    /\ resp.status = 422
    /\ resp.body.syntax = "object"
    /\ resp.body.errors.kind = "map"
    /\ "asset" \in DOMAIN resp.body.errors.m
    /\ Len(resp.body.errors.m["asset"]) > 0
    /\ Contains(resp.body.errors.m["asset"][1], Phrase)

UaIdle ==
    [phase |-> "idle", c |-> << >>, key |-> << >>, puts |-> 0, dels |-> 0,
     log |-> << >>, lastResp |-> NoResp, dec |-> NotDecoded, delErr |-> NoOutcome,
     firstConflict |-> FALSE, firstDecoded |-> FALSE,
     outcome2 |-> NoOutcome, result |-> NoOutcome,
     raced |-> << >>]

InFlight == ua.phase \in {"put", "delete"}

AppendCapped(log, r) == IF Len(log) < MaxLog THEN Append(log, r) ELSE log

\* inputs of the model
InitialThemeIDs == {<< >>, <<"7">>}
Filters == {{}, {KeyA \o Liquid}, {KeyBetween}}
ThemeNames == {<< >>, <<"Foo">>}
AssetKeys == {KeyA, KeyB}
DeleteKeys == {<< >>, KeyA}
Items == {<<"A">>, <<"B">>, <<"C", "c">>}
ItemSeqs == UNION {[1..n -> Items] : n \in 0..MaxItems}
NotRendered == [done |-> FALSE, text |-> << >>]

Init ==
    /\ themeID \in InitialThemeIDs
    /\ filter \in Filters
    /\ last = NoCall
    /\ ua = UaIdle
    /\ created = NotCreated
    /\ items = << >>
    /\ sentence = NotRendered
    /\ fieldErrors = NoErrors
    /\ renderings = << >>

\* no call is running and none has just returned
Quiet == last = NoCall /\ ua.phase = "idle"

\* a single-request operation runs from call to return: it leaves its record
Completes(rec) ==
    /\ last' = rec
    /\ UNCHANGED <<ua, filter, items, sentence, fieldErrors, renderings>>

GetShop ==
    /\ Quiet
    /\ \E resp \in PlainResponses :
           /\ Completes(Call("GetShop", << >>, themeID,
                             <<Request("GET", Url(<<"/meta.json">>, NoQuery), << >>)>>,
                             resp, GetShopOut(resp)))
           /\ UNCHANGED <<themeID, created>>

Themes ==
    /\ Quiet
    /\ \E resp \in PlainResponses :
           /\ Completes(Call("Themes", << >>, themeID,
                             <<Request("GET", Url(<<"/admin/themes.json">>, NoQuery), << >>)>>,
                             resp, ThemesOut(resp)))
           /\ UNCHANGED <<themeID, created>>

CreateNewThemeBindsOnFieldErrors ==
    /\ Quiet
    /\ \E name \in ThemeNames :
           IF name = << >>
           THEN /\ Completes(Call("CreateNewTheme", name, themeID, << >>, NoResp,
                                  Out(ErrThemeNameRequired, NoVal, NotDecoded)))
                /\ UNCHANGED <<themeID, created>>
           ELSE \E resp \in ThemeResponses :
                \E order \in Orders(DOMAIN decodedErrors(resp.body, "theme")) :
                   LET out == CreateNewThemeOut(resp, order)
                       bound == out.dec = Decoded(Nil) IN
                   /\ Completes(Call("CreateNewTheme", name, themeID,
                                     <<Request("POST", Url(<<"/admin/themes.json">>, NoQuery), name)>>,
                                     resp, out))
                   /\ themeID' = IF bound THEN CreatedThemeID(decodedID(resp.body)) ELSE themeID
                   /\ created' = IF out.err = Nil THEN <<out.val.id>> ELSE created

CreateNewTheme ==
    /\ Quiet
    /\ \E name \in ThemeNames :
           IF name = << >>
           THEN /\ Completes(Call("CreateNewTheme", name, themeID, << >>, NoResp,
                                  Out(ErrThemeNameRequired, NoVal, NotDecoded)))
                /\ UNCHANGED <<themeID, created>>
           ELSE \E resp \in ThemeResponses :
                \E order \in Orders(DOMAIN decodedErrors(resp.body, "theme")) :
                   LET out == CreateNewThemeOut(resp, order) IN
                   /\ Completes(Call("CreateNewTheme", name, themeID,
                                     <<Request("POST", Url(<<"/admin/themes.json">>, NoQuery), name)>>,
                                     resp, out))
                   /\ themeID' = IF out.err = Nil THEN CreatedThemeID(out.val.id) ELSE themeID
                   /\ created' = IF out.err = Nil THEN <<out.val.id>> ELSE created

GetInfoUnguarded ==
    /\ Quiet
    /\ \E resp \in ThemeResponses :
           /\ Completes(Call("GetInfo", << >>, themeID,
                             <<Request("GET", themePath(themeID), << >>)>>,
                             resp, GetInfoOut(resp)))
           /\ UNCHANGED <<themeID, created>>

GetInfo ==
    /\ Quiet
    /\ IF themeID = << >>
       THEN /\ Completes(Call("GetInfo", << >>, themeID, << >>, NoResp,
                              Out(ErrInfoWithoutThemeID, NoVal, NotDecoded)))
            /\ UNCHANGED <<themeID, created>>
       ELSE \E resp \in ThemeResponses :
               /\ Completes(Call("GetInfo", << >>, themeID,
                                 <<Request("GET", themePath(themeID), << >>)>>,
                                 resp, GetInfoOut(resp)))
               /\ UNCHANGED <<themeID, created>>

PublishTheme ==
    /\ Quiet
    /\ IF themeID = << >>
       THEN /\ Completes(Call("PublishTheme", << >>, themeID, << >>, NoResp,
                              Out(ErrPublishWithoutThemeID, NoVal, NotDecoded)))
            /\ UNCHANGED <<themeID, created>>
       ELSE \E resp \in ThemeResponses :
            \E order \in Orders(DOMAIN decodedErrors(resp.body, "theme")) :
               /\ Completes(Call("PublishTheme", << >>, themeID,
                                 <<Request("PUT", themePath(themeID), <<"main">>)>>,
                                 resp, PublishThemeOut(resp, order)))
               /\ UNCHANGED <<themeID, created>>

GetAllAssets ==
    /\ Quiet
    /\ \E resp \in AssetsResponses :
           /\ Completes(Call("GetAllAssets", << >>, themeID,
                             <<Request("GET", assetPath(themeID, <<"fields", <<"key">>>>), << >>)>>,
                             resp, GetAllAssetsOut(resp, filter)))
           /\ UNCHANGED <<themeID, created>>

GetAssetRetriesOnFailure ==
    /\ Quiet
    /\ \E filename \in AssetKeys, resp \in PlainResponses :
           LET req == Request("GET", assetPath(themeID, <<"asset[key]", filename>>), << >>) IN
           /\ IF resp.err # Nil
              THEN \E again \in PlainResponses :
                      Completes(Call("GetAsset", filename, themeID, <<req, req>>, again, GetAssetOut(again)))
              ELSE Completes(Call("GetAsset", filename, themeID, <<req>>, resp, GetAssetOut(resp)))
           /\ UNCHANGED <<themeID, created>>

GetAsset ==
    /\ Quiet
    /\ \E filename \in AssetKeys, resp \in PlainResponses :
           /\ Completes(Call("GetAsset", filename, themeID,
                             <<Request("GET", assetPath(themeID, <<"asset[key]", filename>>), << >>)>>,
                             resp, GetAssetOut(resp)))
           /\ UNCHANGED <<themeID, created>>

DeleteAsset ==
    /\ Quiet
    /\ \E key \in DeleteKeys :
           IF ~DeleteAssetSends(key)
           THEN /\ Completes(Call("DeleteAsset", key, themeID, << >>, NoResp,
                                  Out(ErrMissingAssetName, NoVal, NotDecoded)))
                /\ UNCHANGED <<themeID, created>>
           ELSE \E resp \in PlainResponses :
                \E order \in Orders(DOMAIN decodedErrors(resp.body, "asset")) :
                   /\ Completes(Call("DeleteAsset", key, themeID,
                                     <<Request("DELETE", assetPath(themeID, <<"asset[key]", key>>), << >>)>>,
                                     resp, DeleteAssetOut(resp, order)))
                   /\ UNCHANGED <<themeID, created>>

\* UpdateAsset (or CreateAsset, which only calls it) is entered: the receiver c is
\* a copy of the client
UpdateAsset ==
    \E key \in AssetKeys :
        /\ Quiet
        /\ ua' = [UaIdle EXCEPT !.phase = "put", !.c = themeID, !.key = key]
        /\ UNCHANGED <<themeID, filter, last, created, items, sentence, fieldErrors, renderings>>

\* return c.UpdateAsset(asset)
CreateAsset == UpdateAsset

\* UpdateAsset sends its PUT and handles the response
UpdateAssetPut ==
    /\ ua.phase = "put"
    /\ \E resp \in PutResponses :
       \E order \in Orders(DOMAIN decodedErrors(resp.body, "asset")) :
          LET st == UpdateAssetStep(resp, order)
              req == Request("PUT", assetPath(ua.c, NoQuery), ua.key)
              ret == IF ua.puts = 0 THEN st.err ELSE RetryResult(ua.delErr, st.err)
          IN ua' = [ua EXCEPT
                       !.phase = IF st.retry THEN "delete" ELSE "done",
                       !.puts = Min(@ + 1, CountCap),
                       !.log = AppendCapped(@, req),
                       !.lastResp = resp,
                       !.dec = st.dec,
                       !.firstConflict = IF ua.puts = 0 THEN ConflictResponse(resp) ELSE @,
                       !.firstDecoded = IF ua.puts = 0 THEN st.dec = Decoded(Nil) ELSE @,
                       !.outcome2 = IF ua.puts # 1 THEN @
                                    ELSE IF st.retry THEN Retried ELSE st.err,
                       !.result = IF st.retry THEN @ ELSE ret]
    /\ UNCHANGED <<themeID, filter, last, created, items, sentence, fieldErrors, renderings>>

UpdateAssetDeleteShadowOnClient ==
    /\ ua.phase = "delete"
    /\ \E resp \in PlainResponses :
       \E order \in Orders(DOMAIN decodedErrors(resp.body, "asset")) :
          LET key == ua.key \o Liquid
              req == Request("DELETE", assetPath(themeID, <<"asset[key]", key>>), << >>)
          IN ua' = [ua EXCEPT
                       !.phase = "put",
                       !.dels = Min(@ + 1, CountCap),
                       !.log = AppendCapped(@, req),
                       !.delErr = DeleteAssetOut(resp, order).err]
    /\ UNCHANGED <<themeID, filter, last, created, items, sentence, fieldErrors, renderings>>

\* the retry branch: c.DeleteAsset(Asset{Key: asset.Key + ".liquid"}), its error
\* dropped, then UpdateAsset again
UpdateAssetDeleteShadow ==
    /\ ua.phase = "delete"
    /\ \E resp \in PlainResponses :
       \E order \in Orders(DOMAIN decodedErrors(resp.body, "asset")) :
          LET key == ua.key \o Liquid
              sends == DeleteAssetSends(key)
              req == Request("DELETE", assetPath(ua.c, <<"asset[key]", key>>), << >>)
              err == IF sends THEN DeleteAssetOut(resp, order).err ELSE ErrMissingAssetName
          IN ua' = [ua EXCEPT
                       !.phase = "put",
                       !.dels = IF sends THEN Min(@ + 1, CountCap) ELSE @,
                       !.log = IF sends THEN AppendCapped(@, req) ELSE @,
                       !.delErr = err]
    /\ UNCHANGED <<themeID, filter, last, created, items, sentence, fieldErrors, renderings>>

\* the caller has its result: the record of the call is dropped
Return ==
    /\ last # NoCall \/ ua.phase = "done"
    /\ last' = NoCall
    /\ ua' = UaIdle
    /\ UNCHANGED <<themeID, filter, created, items, sentence, fieldErrors, renderings>>

Next ==
    \/ GetShop
    \/ Themes
    \/ CreateNewTheme
    \/ GetInfo
    \/ PublishTheme
    \/ GetAllAssets
    \/ GetAsset
    \/ DeleteAsset
    \/ UpdateAsset
    \/ CreateAsset
    \/ UpdateAssetPut
    \/ UpdateAssetDeleteShadow
    \/ Return

Spec == Init /\ [][Next]_vars

\* a call that was entered goes on: the adapter answers every request (with a
\* response or a transport error) and the handler then runs to its next request
\* or to its return
FairSpec == Init /\ [][Next]_vars /\ WF_vars(UpdateAssetPut) /\ WF_vars(UpdateAssetDeleteShadow)

\* ---------------------------------------------------------------- two callers
\* A second caller holds a pointer to the same Client and calls CreateNewTheme
\* while the first caller's UpdateAsset is between its requests.  UpdateAsset has
\* a value receiver: it works on the copy of the client taken when it was
\* entered (ua.c); CreateNewTheme has a pointer receiver and writes the shared
\* themeID.  The copy at entry is one step.
RaceInit ==
    /\ themeID \in InitialThemeIDs
    /\ filter = {}
    /\ last = NoCall
    /\ ua = UaIdle
    /\ created = NotCreated
    /\ items = << >>
    /\ sentence = NotRendered
    /\ fieldErrors = NoErrors
    /\ renderings = << >>

\* the responses to the second caller's POST: CreateNewTheme never reads the
\* status code, and the theme it creates here is theme 12
MeanwhileResponses ==
    {r \in ThemeResponses :
        \/ r.err # Nil
        \/ /\ r.status \in {200, 422}
           /\ \/ unmarshalResponse(r.body, "theme") # Nil
              \/ DOMAIN decodedErrors(r.body, "theme") # {}
              \/ decodedID(r.body) # 0}

\* the second caller's CreateNewTheme, from call to return
CreateNewThemeMeanwhile ==
    /\ InFlight
    /\ ua.raced = << >>
    /\ \E name \in ThemeNames :
           IF name = << >>
           THEN UNCHANGED <<themeID, created, ua>>
           ELSE \E resp \in MeanwhileResponses :
                \E order \in Orders(DOMAIN decodedErrors(resp.body, "theme")) :
                   LET out == CreateNewThemeOut(resp, order) IN
                   /\ themeID' = IF out.err = Nil THEN CreatedThemeID(out.val.id) ELSE themeID
                   /\ created' = IF out.err = Nil THEN <<out.val.id>> ELSE created
                   /\ ua' = IF out.err = Nil THEN [ua EXCEPT !.raced = <<Len(ua.log)>>] ELSE ua
    /\ UNCHANGED <<filter, last, items, sentence, fieldErrors, renderings>>

RaceNext ==
    \/ UpdateAsset
    \/ UpdateAssetPut
    \/ UpdateAssetDeleteShadow
    \/ CreateNewThemeMeanwhile
    \/ Return

RaceSpec == RaceInit /\ [][RaceNext]_vars

\* ---------------------------------------------------------------- toSentence on its own
SentenceInit ==
    /\ themeID = << >>
    /\ filter = {}
    /\ last = NoCall
    /\ ua = UaIdle
    /\ created = NotCreated
    /\ items \in ItemSeqs
    /\ sentence = NotRendered
    /\ fieldErrors = NoErrors
    /\ renderings = << >>

Render ==
    /\ ~sentence.done
    /\ sentence' = [done |-> TRUE, text |-> toSentence(items)]
    /\ UNCHANGED <<themeID, filter, last, ua, created, items, fieldErrors, renderings>>

SentenceNext == Render

SentenceSpec == SentenceInit /\ [][SentenceNext]_vars

\* ---------------------------------------------------------------- the aggregator on its own
\* errors.New(toSentence(toMessages(r.Errors))) evaluated twice on one map, each
\* evaluation with the attribute order its range over the map happens to take
Attributes == {"asset", "base", "src"}
MsgLists == UNION {[1..n -> {MsgOther, MsgConflict}] : n \in 0..MaxMsgs}
FieldErrorMaps == UNION {[S -> MsgLists] : S \in SUBSET Attributes}

Rendering(msgs) == [msgs |-> msgs, text |-> toSentence(msgs)]

MessagesInit ==
    /\ themeID = << >>
    /\ filter = {}
    /\ last = NoCall
    /\ ua = UaIdle
    /\ created = NotCreated
    /\ items = << >>
    /\ sentence = NotRendered
    /\ fieldErrors \in FieldErrorMaps
    /\ renderings = << >>

RenderErrors ==
    /\ Len(renderings) < 2
    /\ \E order \in Orders(DOMAIN fieldErrors) :
           renderings' = Append(renderings, Rendering(toMessages(fieldErrors, order)))
    /\ UNCHANGED <<themeID, filter, last, ua, created, items, sentence, fieldErrors>>

MessagesNext == RenderErrors

MessagesSpec == MessagesInit /\ [][MessagesNext]_vars

\* ================================================================ claims
PutRequest(c, key) == Request("PUT", assetPath(c, NoQuery), key)
ShadowDelete(c, key) == Request("DELETE", assetPath(c, <<"asset[key]", key \o Liquid>>), << >>)
UaDone == ua.phase = "done"

\* the requests and the result of a call that retried exactly once
OneRetry ==
    /\ ua.puts = 2
    /\ ua.dels = 1
    /\ ua.log = <<PutRequest(ua.c, ua.key), ShadowDelete(ua.c, ua.key), PutRequest(ua.c, ua.key)>>
    /\ ua.result = ua.outcome2

\* the first PUT's response was decoded and is a 422 overwrite conflict
FirstPutConflict == ua.firstConflict /\ ua.firstDecoded

\* C1 as stated: an UpdateAsset call whose first PUT response is a 422 overwrite
\* conflict issues exactly one DELETE of key+".liquid" and exactly one further PUT
\* and returns that second PUT's outcome, whatever the server does afterwards.
C1_ExactlyOneRetryAlways == (UaDone /\ FirstPutConflict) => OneRetry

\* C1 where the retry is not itself answered with the conflict: the call does
\* so when the second PUT's response is not an overwrite conflict again; the
\* outcome of the shadow DELETE makes no difference.
C1_OneRetryUnlessConflictAgain ==
    (UaDone /\ FirstPutConflict /\ ua.outcome2 # Retried) => OneRetry

\* C1, a call that does retry once: the shadow DELETE failed in transport and
\* the second PUT succeeded
C1_Witness ==
    /\ UaDone /\ ua.firstConflict /\ ua.firstDecoded
    /\ ua.puts = 2 /\ ua.dels = 1
    /\ ua.delErr = TransportErr
    /\ ua.result = Nil

\* ---------------------------------------------------------------- C2
EmptyKeyDelete == last.op = "DeleteAsset" /\ last.arg = << >>

Listed == last.op = "GetAllAssets" /\ last.err = Nil

\* C3: the list GetAllAssets returns never holds both a key K and K+".liquid".
C3_NoShadowPairListed ==
    Listed => \A i, j \in DOMAIN last.val.keys : last.val.keys[j] # last.val.keys[i] \o Liquid

\* ---------------------------------------------------------------- C4
\* the body carries a field-error map with a message in it, or a non-empty flat
\* error string
CarriesErrorSignal(body) ==
    /\ body.syntax = "object"
    /\ \/ /\ body.errors.kind = "map"
          /\ \E attr \in DOMAIN body.errors.m : Len(body.errors.m[attr]) > 0
       \/ body.errors.kind = "string" /\ body.errors.s # << >>

\* C4: an operation whose response body carries an error signal returns a
\* non-nil error.
C4_ErrorSignalNeverDropped ==
    /\ (last.op # "none" /\ last.reqs # << >> /\ last.resp.err = Nil
            /\ CarriesErrorSignal(last.resp.body))
       => last.err # Nil
    /\ (UaDone /\ ua.lastResp.err = Nil /\ CarriesErrorSignal(ua.lastResp.body))
       => ua.result # Nil

\* ---------------------------------------------------------------- C5
DigitValue(ch) == CHOOSE d \in 0..9 : DigitChar(d) = ch

\* the number a decimal numeral denotes
RECURSIVE DecimalValue(_)
DecimalValue(s) ==
    IF s = << >> THEN 0
    ELSE IF Head(s) = "-" THEN 0 - DecimalValue(Tail(s))
    ELSE 10 * DecimalValue(SubSeq(s, 1, Len(s) - 1)) + DigitValue(s[Len(s)])

\* the ID of the theme in the response body, 0 when the body has no well-typed theme
ResponseThemeID(body) == IF body.payload.kind = "ok" THEN body.payload.id ELSE 0

ThemeCreated == last.op = "CreateNewTheme" /\ last.arg # << >> /\ last.err = Nil

\* C5: after a CreateNewTheme(name) with non-empty name returned without error,
\* themeID is the decimal numeral of the response theme's ID, and a later GetInfo
\* on the client sends its GET to /admin/themes/{that id}.json.
C5_CreateBindsThemeID ==
    /\ ThemeCreated =>
          /\ themeID # << >>
          /\ DecimalValue(themeID) = ResponseThemeID(last.resp.body)
          /\ created = <<ResponseThemeID(last.resp.body)>>
    /\ (last.op = "GetInfo" /\ created # NotCreated) =>
          /\ Len(last.reqs) = 1
          /\ last.reqs[1].method = "GET"
          /\ LET path == last.reqs[1].url.path
                 numeral == SubSeq(path, 2, Len(path) - 1) IN
             /\ last.reqs[1].url = Url(<<"/admin/themes/">> \o numeral \o <<".json">>, NoQuery)
             /\ numeral # << >>
             /\ DecimalValue(numeral) = created[1]

\* C5 witness: theme 12 was created and GetInfo asked for /admin/themes/12.json
C5_Witness ==
    /\ last.op = "GetInfo"
    /\ created = <<12>>
    /\ last.reqs = <<Request("GET", Url(<<"/admin/themes/", "1", "2", ".json">>, NoQuery), << >>)>>

\* ---------------------------------------------------------------- C6
\* C6: CreateNewTheme("") and, with an empty themeID, GetInfo and PublishTheme
\* return their precondition errors, send no request and leave themeID as it was.
C6_PreconditionFailuresSendNothing ==
    /\ (last.op = "CreateNewTheme" /\ last.arg = << >>) =>
          (last.err = ErrThemeNameRequired /\ last.reqs = << >> /\ themeID = last.id)
    /\ (last.op = "GetInfo" /\ last.id = << >>) =>
          (last.err = ErrInfoWithoutThemeID /\ last.reqs = << >> /\ themeID = last.id)
    /\ (last.op = "PublishTheme" /\ last.id = << >>) =>
          (last.err = ErrPublishWithoutThemeID /\ last.reqs = << >> /\ themeID = last.id)

\* C6 witness: GetInfo on an unbound client failed before any request
C6_Witness ==
    /\ last.op = "GetInfo" /\ last.id = << >>
    /\ last.err = ErrInfoWithoutThemeID
    /\ last.reqs = << >>

\* ---------------------------------------------------------------- C7
TargetOf(op) ==
    CASE op = "GetShop" -> "shop"
      [] op = "Themes" -> "themes"
      [] op \in {"CreateNewTheme", "GetInfo", "PublishTheme"} -> "theme"
      [] op = "GetAllAssets" -> "assets"
      [] OTHER -> "asset"

\* the body's bytes were read and the stream closed
WasRead(body) == body.syntax \notin {"unreadable", "closefails"}

\* what the claim says the decode of a body that was read returns
DecodeRule(body, target, err) ==
    IF mainErr(body, target) /\ basicErr(body) THEN err = ErrMalformedResponse
    ELSE IF ~basicErr(body) /\ reErrors(body) # << >> THEN err = NewError(reErrors(body))
    ELSE err = Nil

MappedStatus(op, status) ==
    CASE op = "GetShop" /\ status = 404 -> ErrShopDomainNotFound
      [] op \in {"GetInfo", "PublishTheme", "GetAllAssets"} /\ status = 404 -> ErrThemeNotFound
      [] op = "GetAsset" /\ status = 404 -> ErrNotPartOfTheme
      [] op = "DeleteAsset" /\ status = 403 -> ErrCriticalFile
      [] op = "DeleteAsset" /\ status = 404 -> ErrNotPartOfTheme
      [] op = "DeleteAsset" /\ status = 406 -> ErrMissingAssetName
      [] OTHER -> Nil

\* C8: for the status codes an operation maps, it returns the mapped error
\* whatever the response body is.
C8_StatusBeatsBody ==
    /\ (last.reqs # << >> /\ last.resp.err = Nil
            /\ MappedStatus(last.op, last.resp.status) # Nil)
       => last.err = MappedStatus(last.op, last.resp.status)
    /\ (UaDone /\ ua.lastResp.err = Nil /\ ua.lastResp.status = 404)
       => ua.result = ErrNotPartOfTheme

\* C8 witness: a 406 answer to DeleteAsset whose body carries a flat error string
C8_Witness ==
    /\ last.op = "DeleteAsset"
    /\ last.resp.status = 406
    /\ last.resp.body.syntax = "object"
    /\ last.resp.body.errors = ErrField("string", FlatMsg, NoErrors)
    /\ last.err = ErrMissingAssetName

\* ---------------------------------------------------------------- C9
Range(s) == {s[i] : i \in DOMAIN s}
Ascending(s) == \A i \in 1..(Len(s) - 1) : StrLess(s[i], s[i + 1])

\* the keys of the response in ascending order
ResponseKeys == decodedKeys(last.resp.body)
SortedResponse ==
    CHOOSE s \in [1..Len(ResponseKeys) -> Range(ResponseKeys)] :
        Ascending(s) /\ Range(s) = Range(ResponseKeys)

\* the key at i is immediately followed by its ".liquid" shadow
Shadowed(s, i) == i < Len(s) /\ s[i + 1] = s[i] \o Liquid

\* s without the positions outside I
Pick(s, I) ==
    [j \in 1..Cardinality(I) |-> s[CHOOSE i \in I : Cardinality({k \in I : k < i}) = j - 1]]

WithoutShadowed(s) == Pick(s, {i \in DOMAIN s : ~Shadowed(s, i)})

HasShadowPair(ks) == \E i, j \in DOMAIN ks : ks[j] = ks[i] \o Liquid

UnfilteredListing == Listed /\ filter = {}

\* C9 as stated: with no ignore rules GetAllAssets returns the response keys
\* ascending without exactly the keys K whose immediate successor is K+".liquid";
\* of such a pair the ".liquid" key is retained; a response with no shadow pair
\* is returned complete.
C9_ShadowedDroppedLiquidKept ==
    UnfilteredListing =>
        /\ last.val.keys = WithoutShadowed(SortedResponse)
        /\ \A i \in DOMAIN SortedResponse :
              Shadowed(SortedResponse, i) => SortedResponse[i + 1] \in Range(last.val.keys)
        /\ ~HasShadowPair(ResponseKeys) => last.val.keys = SortedResponse

\* C9 amended: the ".liquid" key of such a pair is retained unless it is itself
\* immediately followed by its own ".liquid" shadow.
C9_ShadowedDropped ==
    UnfilteredListing =>
        /\ last.val.keys = WithoutShadowed(SortedResponse)
        /\ \A i \in DOMAIN SortedResponse :
              (Shadowed(SortedResponse, i) /\ ~Shadowed(SortedResponse, i + 1))
                  => SortedResponse[i + 1] \in Range(last.val.keys)
        /\ ~HasShadowPair(ResponseKeys) => last.val.keys = SortedResponse

\* C9 witness: an unsorted response with one shadow pair
C9_Witness ==
    /\ UnfilteredListing
    /\ ResponseKeys = <<KeyB, KeyA \o Liquid, KeyA>>
    /\ last.val.keys = <<KeyA \o Liquid, KeyB>>

\* ---------------------------------------------------------------- C10
\* what stands before the i-th of n items in the sentence
Separator(i, n) ==
    IF i = 1 THEN << >>
    ELSE IF n = 2 THEN <<" and ">>
    ELSE IF i = n THEN <<", and ">>
    ELSE <<", ">>

RECURSIVE Spell(_, _)
Spell(a, i) ==
    IF i > Len(a) THEN << >> ELSE Separator(i, Len(a)) \o a[i] \o Spell(a, i + 1)

\* C10: toSentence gives "" for no item, the item for one, "A and B" for two,
\* and for three or more the items joined by ", " with ", and " before the
\* last; the items appear in list order.
C10_SentenceShape ==
    sentence.done =>
        /\ sentence.text = Spell(items, 1)
        /\ Len(items) = 0 => sentence.text = << >>
        /\ Len(items) = 1 => sentence.text = items[1]
        /\ Len(items) = 2 => sentence.text = items[1] \o <<" and ">> \o items[2]

\* C10 witness: three items rendered with the comma before "and"
C10_Witness ==
    /\ sentence.done
    /\ items = <<<<"B">>, <<"A">>, <<"C", "c">>>>
    /\ sentence.text = <<"B", ", ", "A", ", and ", "C", "c">>

\* ---------------------------------------------------------------- C11
\* the items of one attribute, in the order they stand in the list
ItemsOf(attr, msgs) == SelectSeq(msgs, LAMBDA it : it[1] = attr)

\* every "<attribute> <message>" item of the map stands exactly once in the list,
\* the items of one attribute together and in the order of its messages, and the
\* text is the list as a sentence
ItemsOnceInOrder(r) ==
    /\ r.text = Spell(r.msgs, 1)
    /\ \A k \in DOMAIN r.msgs : r.msgs[k][1] \in DOMAIN fieldErrors
    /\ \A attr \in DOMAIN fieldErrors :
          ItemsOf(attr, r.msgs) = [k \in DOMAIN fieldErrors[attr] |-> <<attr, " ">> \o fieldErrors[attr][k]]
    /\ \A k, l, m \in DOMAIN r.msgs :
          (k < l /\ l < m /\ r.msgs[k][1] = r.msgs[m][1]) => r.msgs[l][1] = r.msgs[k][1]

\* C11 as stated: the same field-error map always renders to the same sentence
\* (one fixed attribute order), every item appears exactly once, and the messages
\* of one attribute appear in their response order.
C11_SameMapSameSentence ==
    /\ \A i, j \in DOMAIN renderings : renderings[i].text = renderings[j].text
    /\ \A i \in DOMAIN renderings : ItemsOnceInOrder(renderings[i])

\* C11 amended: the attribute order is whatever the range over the map takes and
\* two renderings of one map may differ in it; in each rendering every item
\* appears exactly once and the messages of one attribute appear together in
\* their response order.
C11_ItemsOnceInResponseOrder ==
    \A i \in DOMAIN renderings : ItemsOnceInOrder(renderings[i])

\* C11 witness: a map with two attributes rendered twice, in two attribute orders
C11_Witness ==
    /\ fieldErrors = [x \in {"asset", "base"} |-> IF x = "asset" THEN <<MsgOther>> ELSE <<MsgOther, MsgConflict>>]
    /\ Len(renderings) = 2
    /\ renderings[1].msgs[1][1] = "asset"
    /\ renderings[2].msgs[1][1] = "base"
    /\ renderings[1].text # renderings[2].text

\* ---------------------------------------------------------------- C12
\* the step is the return of a CreateNewTheme call without error
CreateSucceeds ==
    /\ last = NoCall
    /\ last'.op = "CreateNewTheme"
    /\ last'.arg # << >>
    /\ last'.err = Nil

\* C12: themeID changes only in a CreateNewTheme call that returns without
\* error; every other operation, every step of UpdateAsset's retry path and every
\* CreateNewTheme call that returns an error leave it as it was.
C12_OnlyCreateChangesThemeID ==
    [][(themeID' # themeID) => CreateSucceeds]_vars

\* C12 witness: CreateNewTheme on an unbound client returned theme 12 and bound it
C12_Witness ==
    /\ last.op = "CreateNewTheme"
    /\ last.err = Nil
    /\ last.id = << >>
    /\ themeID = <<"1", "2">>

\* ---------------------------------------------------------------- C13
\* C13: once themeID is non-empty no step makes it empty again, and the only
\* step that takes it from empty to non-empty is a CreateNewTheme call that
\* returns without error.
C13_BoundIsTerminal ==
    [][/\ (themeID # << >>) => (themeID' # << >>)
       /\ (themeID = << >> /\ themeID' # << >>) => CreateSucceeds]_vars

\* C13 witness: a client bound at construction created a theme whose ID is 0
\* and is bound to "0"
C13_Witness ==
    /\ last.op = "CreateNewTheme"
    /\ last.err = Nil
    /\ last.id = <<"7">>
    /\ created = <<0>>
    /\ themeID = <<"0">>

\* ---------------------------------------------------------------- C14
\* C14: every UpdateAsset call eventually returns, whatever the server answers,
\* and a single call never issues more than two PUT requests.
C14_ReturnsWithinTwoPuts ==
    /\ [](ua.puts <= 2)
    /\ InFlight ~> UaDone

\* ---------------------------------------------------------------- C15
\* the keys the ignore predicate does not match, in response order
Unignored(ks, flt) == SelectSeq(ks, LAMBDA k : ~Match(flt, k))

\* the keys of ks in ascending order
AscendingOf(ks) ==
    CHOOSE s \in [1..Len(ks) -> Range(ks)] : Ascending(s) /\ Range(s) = Range(ks)

\* C15: GetAllAssets returns the response keys without the ignored ones, sorted
\* ascending, without every key K whose immediate successor among those
\* remaining keys is K+".liquid"; no ignored key is returned.
C15_FiltersInSequence ==
    Listed =>
        /\ last.val.keys = WithoutShadowed(AscendingOf(Unignored(ResponseKeys, filter)))
        /\ \A k \in Range(last.val.keys) : ~Match(filter, k)

\* C15 amended: GetAllAssets sorts all the response keys ascending and returns
\* those that are not ignored and whose immediate successor among all the
\* response keys, ignored or not, is not K+".liquid"; no ignored key is returned.
C15_ShadowCheckOnAllKeys ==
    Listed =>
        /\ last.val.keys = Unignored(WithoutShadowed(SortedResponse), filter)
        /\ \A k \in Range(last.val.keys) : ~Match(filter, k)

\* C15 witness: the shadow "a.liquid" is ignored and still hides "a"
C15_Witness ==
    /\ Listed
    /\ filter = {KeyA \o Liquid}
    /\ ResponseKeys = <<KeyB, KeyA \o Liquid, KeyA>>
    /\ last.val.keys = <<KeyB>>

\* ---------------------------------------------------------------- C16
\* the field-error map of a response body, empty when it has none
FieldErrorsOf(resp) ==
    IF resp.err = Nil /\ resp.body.syntax = "object" /\ resp.body.errors.kind = "map"
    THEN resp.body.errors.m ELSE NoErrors

\* status 422 and some message of the `asset` attribute contains the phrase
ConflictAtAnyPosition(resp) ==
    /\ resp.err = Nil
    /\ resp.status = 422
    /\ "asset" \in DOMAIN FieldErrorsOf(resp)
    /\ \E i \in DOMAIN FieldErrorsOf(resp)["asset"] : Contains(FieldErrorsOf(resp)["asset"][i], Phrase)

\* the response to the last PUT was decoded without error
PutDecoded == ua.dec = Decoded(Nil)

\* C16: UpdateAsset goes on to the shadow DELETE and a second PUT whenever the
\* PUT response has status 422 and a message of the `asset` attribute, at
\* whatever position, contains the phrase; otherwise it sends no DELETE and no
\* further PUT and returns the field errors as a sentence.
C16_RetryOnConflictAtAnyPosition ==
    /\ (UaDone /\ PutDecoded) => ~ConflictAtAnyPosition(ua.lastResp)
    /\ (ua.phase = "delete") => ConflictAtAnyPosition(ua.lastResp)
    /\ (UaDone /\ PutDecoded /\ DOMAIN FieldErrorsOf(ua.lastResp) # {} /\ ua.result # Panic)
          => ua.result.kind = "msg"

\* status 422 and the first message of the `asset` attribute contains the phrase
ConflictAtFirstPosition(resp) ==
    /\ resp.err = Nil
    /\ resp.status = 422
    /\ "asset" \in DOMAIN FieldErrorsOf(resp)
    /\ FieldErrorsOf(resp)["asset"] # << >>
    /\ Contains(FieldErrorsOf(resp)["asset"][1], Phrase)

\* status 422 and an `asset` attribute without any message
EmptyAssetList(resp) ==
    /\ resp.err = Nil
    /\ resp.status = 422
    /\ "asset" \in DOMAIN FieldErrorsOf(resp)
    /\ FieldErrorsOf(resp)["asset"] = << >>

\* the error made of the field errors: the messages of `asset` when the map has
\* that attribute, every "<attribute> <message>" item otherwise
IsFieldErrorSentence(err, errs) ==
    IF "asset" \in DOMAIN errs THEN err = NewError(Spell(errs["asset"], 1))
    ELSE \E order \in Orders(DOMAIN errs) : err = NewError(Spell(toMessages(errs, order), 1))

\* C16 amended: UpdateAsset goes on to the shadow DELETE and a second PUT exactly
\* when the PUT response has status 422 and the first message of the `asset`
\* attribute contains the phrase; a conflict message further down the list does
\* not count.  Otherwise it sends no DELETE and no further PUT and returns the
\* field errors as a sentence, except that with status 422 and an empty `asset`
\* list it faults (C19).
C16_RetryOnConflictAtFirstPosition ==
    /\ (UaDone /\ PutDecoded) => ~ConflictAtFirstPosition(ua.lastResp)
    /\ (ua.phase = "delete") => ConflictAtFirstPosition(ua.lastResp)
    /\ (UaDone /\ PutDecoded /\ DOMAIN FieldErrorsOf(ua.lastResp) # {})
          => IF EmptyAssetList(ua.lastResp) THEN ua.result = Panic
             ELSE IsFieldErrorSentence(ua.result, FieldErrorsOf(ua.lastResp))

\* C16 witness: status 422 with the conflict message second in the list: one
\* PUT, no DELETE, both messages returned as a sentence
C16_Witness ==
    /\ UaDone
    /\ ua.puts = 1
    /\ ua.dels = 0
    /\ ua.lastResp.status = 422
    /\ FieldErrorsOf(ua.lastResp) = [x \in {"asset"} |-> <<MsgOther, MsgConflict>>]
    /\ ua.result = NewError(MsgOther \o <<" and ">> \o MsgConflict)

\* ---------------------------------------------------------------- C17
\* the asset endpoint of a client whose themeID is id
AssetEndpoint(id) ==
    IF id = << >> THEN <<"/admin/assets.json">>
    ELSE <<"/admin/themes/">> \o id \o <<"/assets.json">>

\* the requests of the asset call that is running or has just returned
AssetRequests ==
    IF last.op \in {"GetAllAssets", "GetAsset", "DeleteAsset"} THEN last.reqs ELSE ua.log

\* the path is /admin/themes/{numeral of id}/assets.json
ScopedTo(path, id) ==
    LET numeral == SubSeq(path, 2, Len(path) - 1) IN
    /\ path = <<"/admin/themes/">> \o numeral \o <<"/assets.json">>
    /\ numeral # << >>
    /\ DecimalValue(numeral) = id

\* C17: every asset request, the shadow DELETE and the second PUT of the retry
\* included, goes to /admin/assets.json when the client's themeID is empty and
\* to /admin/themes/{themeID}/assets.json otherwise; once CreateNewTheme has
\* succeeded every asset request goes to the new theme's endpoint.
C17_AssetRequestsFollowThemeID ==
    \A i \in DOMAIN AssetRequests :
        /\ AssetRequests[i].url.path = AssetEndpoint(themeID)
        /\ created # NotCreated => ScopedTo(AssetRequests[i].url.path, created[1])

\* C17 witness: after theme 12 was created, an UpdateAsset call that retried
\* sent its PUT, its shadow DELETE and its second PUT to theme 12
C17_Witness ==
    /\ UaDone
    /\ created = <<12>>
    /\ Len(ua.log) = 3
    /\ ua.log[2].method = "DELETE"
    /\ \A i \in 1..3 : ua.log[i].url.path = <<"/admin/themes/", "1", "2", "/assets.json">>

\* ---------------------------------------------------------------- C18
\* the precondition of the call that has just returned held
PreconditionHeld ==
    CASE last.op = "CreateNewTheme" -> last.arg # << >>
      [] last.op \in {"GetInfo", "PublishTheme"} -> last.id # << >>
      [] last.op = "DeleteAsset" -> last.arg # << >>
      [] OTHER -> last.op # "none"

\* C18: an operation other than UpdateAsset / CreateAsset whose precondition
\* holds sends exactly one request, whatever status code, body or transport
\* error comes back.
C18_ExactlyOneRequest ==
    PreconditionHeld => Len(last.reqs) = 1

\* C18 witness: PublishTheme failed in transport and sent nothing after it
C18_Witness ==
    /\ last.op = "PublishTheme"
    /\ last.resp = Failed
    /\ last.err = TransportErr
    /\ Len(last.reqs) = 1

\* ---------------------------------------------------------------- C19
\* C19: whatever status code and decodable body answer its PUT, UpdateAsset
\* returns nil or an error and never faults at run time, in particular not on
\* status 422 with an empty message list under `asset`.
C19_NoRuntimeFault ==
    (UaDone /\ PutDecoded) => ua.result # Panic

\* ---------------------------------------------------------------- C20
\* C20: the first PUT, the shadow DELETE and the retried PUT of one UpdateAsset
\* call all go to the asset endpoint of the themeID the call started with, also
\* when a CreateNewTheme call on the same client succeeds between them.
C20_OneEndpointPerCall ==
    /\ \A i \in DOMAIN ua.log : ua.log[i].url.path = AssetEndpoint(ua.c)
    /\ \A i, j \in DOMAIN ua.log : ua.log[i].url.path = ua.log[j].url.path

\* C20 witness: theme 12 was created after the first PUT of a call entered on
\* an unbound client, and the call's DELETE and second PUT still went to
\* /admin/assets.json
C20_Witness ==
    /\ UaDone
    /\ ua.c = << >>
    /\ ua.raced = <<1>>
    /\ themeID = <<"1", "2">>
    /\ Len(ua.log) = 3
    /\ \A i \in 1..3 : ua.log[i].url.path = <<"/admin/assets.json">>

====
